---------------------------- MODULE Spec2Model ----------------------------
(***************************************************************************)
(* Adaptive block sort: adaptive_block_sort (abs.py), which merges the     *)
(* detected runs into the auxiliary list `result` and copies it back, and  *)
(* optimized_adaptive_block_sort (oabs.py), which writes the merged values *)
(* straight back into arr from index 0.                                    *)
(*                                                                         *)
(* Indices are the 0-based indices of the Python code; At and Put turn     *)
(* them into TLA+ sequence positions.  An array element is a pair          *)
(* <<value, tag>>: the value is what the code compares and copies, the tag *)
(* (the element's index in the input) travels with every copy and is read  *)
(* by the properties only.  A heap entry is <<value, run_id, tag>>, the    *)
(* code's tuple (value, run_id) plus the tag.                              *)
(***************************************************************************)
EXTENDS Integers, Sequences, FiniteSets

VARIABLES variant, input, arr, pc, i, j, runs, block_indices, block_ends,
          block_id, heap, write_index, result

vars == <<variant, input, arr, pc, i, j, runs, block_indices, block_ends,
          block_id, heap, write_index, result>>

\* ------------------------------------------------------------- bounds
\* Input values are 1..MaxVal.
MaxVal == 3
\* An input is written with at most MaxFree letters (see Inputs).
MaxFree == 3

\* -------------------------------------------------- program constants
cache_line_bytes == 64
element_size == 8
elements_per_cache_line == cache_line_bytes \div element_size
AbsMinBlock == 32

\* ------------------------------------------------------------ helpers
Val(e) == e[1]
Tag(e) == e[2]
At(a, k) == a[k + 1]
Put(a, k, x) == [a EXCEPT ![k + 1] = x]
Max(x, y) == IF x >= y THEN x ELSE y
Min(x, y) == IF x <= y THEN x ELSE y

\* int(math.sqrt(n)): the integer part of the square root.
ISqrt(n) == CHOOSE r \in 0..n : r * r <= n /\ (r + 1) * (r + 1) > n

\* block_size of each function.
AbsBlockSize(n) == Max(AbsMinBlock, ISqrt(n))
OabsBlockSize(n) == Max(elements_per_cache_line, (ISqrt(n) \div 2) * 2)

N == Len(arr)
block_size == IF variant = "abs" THEN AbsBlockSize(N) ELSE OabsBlockSize(N)

\* ------------------------------------------------- step 1: block sort
\* The shift condition of the insertion sort: arr[k] > key.
ShiftCondGE(a, k, key) == Val(At(a, k)) >= Val(key)
ShiftCond(a, k, key) == Val(At(a, k)) > Val(key)

\* while k >= lo and arr[k] > key: arr[k+1] = arr[k]; k -= 1
\* then arr[k+1] = key.
RECURSIVE ShiftLoop(_, _, _, _)
ShiftLoop(a, lo, k, key) ==
    IF k >= lo /\ ShiftCond(a, k, key)
    THEN ShiftLoop(Put(a, k + 1, At(a, k)), lo, k - 1, key)
    ELSE Put(a, k + 1, key)

\* ---------------------------------------------- step 2: run detection
\* The run condition: arr[i] <= arr[i + 1].
RunCondStrict(a, k) == Val(At(a, k)) < Val(At(a, k + 1))
RunCond(a, k) == Val(At(a, k)) <= Val(At(a, k + 1))

RECURSIVE FastForwardShort(_, _)
FastForwardShort(a, k) ==
    IF k < Len(a) - 2 /\ RunCond(a, k) THEN FastForwardShort(a, k + 1) ELSE k

\* while i < n - 1 and arr[i] <= arr[i + 1]: i += 1
RECURSIVE FastForward(_, _)
FastForward(a, k) ==
    IF k < Len(a) - 1 /\ RunCond(a, k) THEN FastForward(a, k + 1) ELSE k

\* ------------------------------------------------------- the min-heap
\* heapq orders the tuples (value, run_id) lexicographically.  The heap is
\* kept as the list of its entries in that order: heappush inserts in
\* order (after the entries that are not greater), heappop takes the first.
HeapLessRunFirst(e, f) == e[2] < f[2] \/ (e[2] = f[2] /\ e[1] < f[1])
HeapLessHighRun(e, f) == e[1] < f[1] \/ (e[1] = f[1] /\ e[2] > f[2])
HeapLess(e, f) == e[1] < f[1] \/ (e[1] = f[1] /\ e[2] < f[2])

HeapPush(h, e) ==
    LET NotAfter(f) == ~HeapLess(e, f)
        After(f) == HeapLess(e, f)
    IN  SelectSeq(h, NotAfter) \o <<e>> \o SelectSeq(h, After)

\* heappop returns the first entry (HeapTop) and leaves the others (HeapRest).
HeapTop(h) == Head(h)
HeapRestKeep(h) == h
HeapRest(h) == Tail(h)

\* block_indices[block_id] < block_ends[block_id]
HasNextSkipLast(bi, be, b) == bi[b + 1] + 1 < be[b + 1]
HasNext(bi, be, b) == bi[b + 1] < be[b + 1]

\* The heap entry read at a run's cursor.
EntryAt(a, bi, b) == <<Val(At(a, bi[b + 1])), b, Tag(At(a, bi[b + 1]))>>

\* ------------------------------------- step 5 of oabs: final adjustment
\* for i in range(w, n): if arr[i] < arr[i-1]: insert arr[i] backwards.
RECURSIVE AdjustLoop(_, _)
AdjustLoop(a, k) ==
    IF k >= Len(a) THEN a
    ELSE IF Val(At(a, k)) < Val(At(a, k - 1))
         THEN AdjustLoop(ShiftLoop(a, 0, k - 1, At(a, k)), k + 1)
         ELSE AdjustLoop(a, k + 1)

\* ------------------------------------------------------------- inputs
\* An input is a word of at most MaxFree letters over 1..MaxVal in which
\* each letter stands once or for a whole minimum block of equal values,
\* so that inputs span one, two and more blocks and runs.
MinBlock(v) == IF v = "abs" THEN AbsMinBlock ELSE elements_per_cache_line

Words == UNION {[1..len -> 1..MaxVal] : len \in 0..MaxFree}

RECURSIVE Repeat(_, _)
Repeat(x, count) == IF count = 0 THEN <<>> ELSE <<x>> \o Repeat(x, count - 1)

RECURSIVE Expand(_, _, _)
Expand(w, reps, k) ==
    IF k > Len(w) THEN <<>>
    ELSE Repeat(w[k], reps[k]) \o Expand(w, reps, k + 1)

Tagged(s) == [k \in 1..Len(s) |-> <<s[k], k - 1>>]

Variants == {"abs", "oabs"}

\* ---------------------------------------------------------------- Init
Init ==
    /\ variant \in Variants
    /\ \E w \in Words :
         \E reps \in [1..Len(w) -> {1, MinBlock(variant)}] :
            input = Tagged(Expand(w, reps, 1))
    /\ arr = input
    /\ pc = "entry"
    /\ i = 0
    /\ j = 0
    /\ runs = <<>>
    /\ block_indices = <<>>
    /\ block_ends = <<>>
    /\ block_id = 0
    /\ heap = <<>>
    /\ write_index = 0
    /\ result = <<>>

\* ------------------------------------------------------------- actions
\* if not arr or len(arr) <= 1: return arr; otherwise the block sort starts
\* at the first block's second element.
Entry ==
    /\ pc = "entry"
    /\ IF N <= 1
       THEN /\ pc' = "done"
            /\ j' = j
       ELSE /\ pc' = "blocksort"
            /\ j' = 1
    /\ UNCHANGED <<variant, input, arr, i, runs, block_indices, block_ends,
                   block_id, heap, write_index, result>>

\* One iteration of `for j in range(i + 1, block_end)` in block
\* [i, min(i + block_size, n)): arr[j] is inserted into arr[i..j-1].  The
\* loops then move to the next insertion: in this block, or in the next
\* block that has a second element; after the last one, step 2 starts with
\* runs = [] and i = 0.
InsertStep ==
    /\ pc = "blocksort"
    /\ arr' = ShiftLoop(arr, i, j - 1, At(arr, j))
    /\ IF j + 1 < Min(i + block_size, N)
       THEN /\ j' = j + 1
            /\ UNCHANGED <<i, pc>>
       ELSE IF i + block_size + 1 < N
            THEN /\ i' = i + block_size
                 /\ j' = i + block_size + 1
                 /\ pc' = pc
            ELSE /\ i' = 0
                 /\ j' = 0
                 /\ pc' = "rundetect"
    /\ UNCHANGED <<variant, input, runs, block_indices, block_ends,
                   block_id, heap, write_index, result>>

\* One iteration of `while i < n`: one run is appended.
DetectRun ==
    /\ pc = "rundetect"
    /\ LET e == FastForward(arr, i)
       IN  /\ runs' = Append(runs, <<i, e + 1>>)
           /\ i' = e + 1
           /\ pc' = IF e + 1 < N THEN pc ELSE "checkruns"
    /\ UNCHANGED <<variant, input, arr, j, block_indices, block_ends,
                   block_id, heap, write_index, result>>

\* The early exit on a single run covering the array; otherwise the
\* cursors and ends of the runs are set up for the merge.
CheckRuns ==
    /\ pc = "checkruns"
    /\ IF Len(runs) = 1 /\ runs[1][1] = 0 /\ runs[1][2] = N
       THEN /\ pc' = "done"
            /\ UNCHANGED <<block_indices, block_ends>>
       ELSE /\ pc' = "heapinit"
            /\ block_indices' = [r \in 1..Len(runs) |-> runs[r][1]]
            /\ block_ends' = [r \in 1..Len(runs) |-> runs[r][2]]
    /\ block_id' = 0
    /\ heap' = <<>>
    /\ UNCHANGED <<variant, input, arr, i, j, runs, write_index, result>>

\* One iteration of `for block_id in range(num_blocks)`.
HeapInit ==
    /\ pc = "heapinit"
    /\ IF HasNext(block_indices, block_ends, block_id)
       THEN /\ heap' = HeapPush(heap, EntryAt(arr, block_indices, block_id))
            /\ block_indices' =
                 [block_indices EXCEPT ![block_id + 1] = @ + 1]
       ELSE UNCHANGED <<heap, block_indices>>
    /\ block_id' = block_id + 1
    /\ pc' = IF block_id + 1 < Len(runs) THEN pc ELSE "merge"
    /\ UNCHANGED <<variant, input, arr, i, j, runs, block_ends, write_index,
                   result>>

\* abs.py: one iteration of `while heap`: the popped value is appended to
\* result and the run's next element is pushed.
AbsMergeStep ==
    /\ pc = "merge"
    /\ variant = "abs"
    /\ heap # <<>>
    /\ LET top == HeapTop(heap)
           b == top[2]
       IN  /\ result' = Append(result, <<top[1], top[3]>>)
           /\ IF HasNext(block_indices, block_ends, b)
              THEN /\ heap' = HeapPush(HeapRest(heap),
                                       EntryAt(arr, block_indices, b))
                   /\ block_indices' = [block_indices EXCEPT ![b + 1] = @ + 1]
              ELSE /\ heap' = HeapRest(heap)
                   /\ UNCHANGED block_indices
    /\ pc' = IF heap' = <<>> THEN "copyback" ELSE pc
    /\ UNCHANGED <<variant, input, arr, i, j, runs, block_ends, block_id,
                   write_index>>

\* abs.py: for i in range(n): arr[i] = result[i]
AbsCopyBack ==
    /\ pc = "copyback"
    /\ arr' = [k \in 1..N |-> result[k]]
    /\ pc' = "done"
    /\ UNCHANGED <<variant, input, i, j, runs, block_indices, block_ends,
                   block_id, heap, write_index, result>>

\* oabs.py: one iteration of `while heap`: the popped value is written to
\* arr[write_index], and the run's next element is read from the array as
\* that write left it.
OabsMergeStep ==
    /\ pc = "merge"
    /\ variant = "oabs"
    /\ heap # <<>>
    /\ LET top == HeapTop(heap)
           b == top[2]
           written == Put(arr, write_index, <<top[1], top[3]>>)
       IN  /\ arr' = written
           /\ write_index' = write_index + 1
           /\ IF HasNext(block_indices, block_ends, b)
              THEN /\ heap' = HeapPush(HeapRest(heap),
                                       EntryAt(written, block_indices, b))
                   /\ block_indices' = [block_indices EXCEPT ![b + 1] = @ + 1]
              ELSE /\ heap' = HeapRest(heap)
                   /\ UNCHANGED block_indices
    /\ pc' = IF heap' = <<>> THEN "adjust" ELSE pc
    /\ UNCHANGED <<variant, input, i, j, runs, block_ends, block_id, result>>

\* oabs.py: the final adjustment loop over range(write_index, n).
OabsFinalAdjust ==
    /\ pc = "adjust"
    /\ arr' = AdjustLoop(arr, write_index)
    /\ pc' = "done"
    /\ UNCHANGED <<variant, input, i, j, runs, block_indices, block_ends,
                   block_id, heap, write_index, result>>

Next ==
    \/ Entry
    \/ InsertStep
    \/ DetectRun
    \/ CheckRuns
    \/ HeapInit
    \/ AbsMergeStep
    \/ AbsCopyBack
    \/ OabsMergeStep
    \/ OabsFinalAdjust

Spec == Init /\ [][Next]_vars

\* -------------------------------------------------- property helpers
IsSorted(a) == \A k \in 1..(Len(a) - 1) : Val(a[k]) <= Val(a[k + 1])
Count(a, v) == Cardinality({k \in 1..Len(a) : Val(a[k]) = v})
SameMultiset(a, b) ==
    /\ Len(a) = Len(b)
    /\ \A v \in 1..MaxVal : Count(a, v) = Count(b, v)
\* The block starts 0, block_size, 2 * block_size, ... below n.
BlockStarts == {s \in 0..(N - 1) : s % block_size = 0}
\* The position in a of the element tagged t, and the run holding position k.
PosOf(a, t) == CHOOSE k \in 0..(Len(a) - 1) : Tag(At(a, k)) = t
RunOf(k) == CHOOSE r \in 1..Len(runs) : runs[r][1] <= k /\ k < runs[r][2]
\* How many heap entries run r (1-based) has, and how many of its elements
\* have been popped.
Pending(r) == Cardinality({k \in 1..Len(heap) : heap[k][2] = r - 1})
Emitted(r) == block_indices[r] - runs[r][1] - Pending(r)
\* The elements of a whose value is v, in their order in a.
WithValue(a, v) == LET IsV(e) == Val(e) = v IN SelectSeq(a, IsV)
MergePhase == {"heapinit", "merge", "copyback", "adjust"}

\* ---------------------------------------------------------------- C1
\* C1: when optimized_adaptive_block_sort returns, arr is in non-decreasing
\* order.
C1_OabsSorted ==
    (pc = "done" /\ variant = "oabs") => IsSorted(arr)

\* ---------------------------------------------------------------- C2
\* C2: when optimized_adaptive_block_sort returns, arr holds the same
\* multiset of values as the input.
C2_OabsPermutation ==
    (pc = "done" /\ variant = "oabs") => SameMultiset(arr, input)

\* ---------------------------------------------------------------- C3
\* C3: when adaptive_block_sort returns, arr is the ascending rearrangement
\* of the input: non-decreasing and with the input's multiset of values.
C3_AbsSortsLikeReference ==
    (pc = "done" /\ variant = "abs") =>
        (IsSorted(arr) /\ SameMultiset(arr, input))

\* An input of more than one block that was merged from several runs and
\* came back reordered.
C3_Witness ==
    /\ pc = "done"
    /\ variant = "abs"
    /\ N > block_size
    /\ Len(runs) >= 3
    /\ arr # input
    /\ ~IsSorted(input)

\* ---------------------------------------------------------------- C4
\* C4: on a non-decreasing input of length >= 2 both functions leave the
\* list element for element unchanged, detect the single run (0, n), and
\* never enter the heap merge phase.
C4_SortedFastPath ==
    (Len(input) >= 2 /\ IsSorted(input)) =>
        /\ arr = input
        /\ pc \notin MergePhase
        /\ pc \in {"checkruns", "done"} => runs = << <<0, N>> >>

\* A sorted input with duplicates and distinct values, of more than one
\* block, returned through the early exit.
C4_Witness ==
    /\ pc = "done"
    /\ IsSorted(input)
    /\ N > block_size
    /\ Val(input[1]) < Val(input[N])
    /\ \E k \in 1..(N - 1) : Val(input[k]) = Val(input[k + 1])
    /\ runs = << <<0, N>> >>

\* ---------------------------------------------------------------- C5
\* C5: at every write arr[write_index] = val of the in-place merge,
\* write_index is below the cursor of every run that still has unread
\* elements.
C5_WriteBehindCursors ==
    (pc = "merge" /\ variant = "oabs" /\ heap # <<>>) =>
        \A r \in 1..Len(runs) :
            block_indices[r] < block_ends[r] => write_index < block_indices[r]

\* ---------------------------------------------------------------- C6
\* C6: after the run-detection scan the runs partition [0, n): the first
\* starts at 0, each ends where the next starts, the last ends at n, each
\* is non-empty and non-decreasing, and each is maximal.
C6_RunsPartition ==
    pc = "checkruns" =>
        /\ Len(runs) >= 1
        /\ runs[1][1] = 0
        /\ runs[Len(runs)][2] = N
        /\ \A r \in 1..Len(runs) : runs[r][1] < runs[r][2]
        /\ \A r \in 1..(Len(runs) - 1) : runs[r][2] = runs[r + 1][1]
        /\ \A r \in 1..Len(runs) :
              \A k \in runs[r][1]..(runs[r][2] - 2) :
                  Val(At(arr, k)) <= Val(At(arr, k + 1))
        /\ \A r \in 1..(Len(runs) - 1) :
              Val(At(arr, runs[r][2] - 1)) > Val(At(arr, runs[r][2]))

\* Three or more runs were detected, one of them with an equal neighbour
\* pair inside.
C6_Witness ==
    /\ pc = "checkruns"
    /\ Len(runs) >= 3
    /\ \E k \in 0..(N - 2) :
          Val(At(arr, k)) = Val(At(arr, k + 1)) /\ RunOf(k) = RunOf(k + 1)

\* ---------------------------------------------------------------- C7
\* The state part of C7: cursors within their runs, one heap entry per run
\* at most, heap no larger than the number of runs not fully emitted.
C7_CursorsAndHeap ==
    pc \in MergePhase =>
        /\ \A r \in 1..Len(runs) :
              /\ runs[r][1] <= block_indices[r]
              /\ block_indices[r] <= block_ends[r]
              /\ block_ends[r] = runs[r][2]
              /\ Pending(r) <= 1
        /\ Len(heap) <=
              Cardinality({r \in 1..Len(runs) :
                              Emitted(r) < runs[r][2] - runs[r][1]})

\* The step part of C7: no step moves a cursor backwards.
C7_CursorsMonotone ==
    (pc \in MergePhase /\ pc' \in MergePhase) =>
        \A r \in 1..Len(runs) : block_indices'[r] >= block_indices[r]

\* C7: during heap initialisation and merge (in both functions) every
\* cursor only increases and stays between its run's start and end, the
\* heap holds at most one entry per run, and the heap is no larger than the
\* number of runs not yet fully emitted.
C7_Theorem == [](C7_CursorsAndHeap) /\ [][C7_CursorsMonotone]_vars

\* In the middle of a merge of three or more runs: the heap is full, some
\* run is exhausted and some cursor is strictly inside its run.
C7_Witness ==
    /\ pc = "merge"
    /\ Len(runs) >= 3
    /\ Len(heap) >= 2
    /\ \E r \in 1..Len(runs) : Emitted(r) = runs[r][2] - runs[r][1]
    /\ \E r \in 1..Len(runs) :
          runs[r][1] + 1 < block_indices[r] /\ block_indices[r] < block_ends[r]

\* ---------------------------------------------------------------- C8
\* C8: after the block-sort phase every block is the stable ascending sort
\* of the same slice of the input: non-decreasing, made of exactly the
\* elements the block held on entry, equal values in their input order.
C8_BlocksStablySorted ==
    pc \in {"rundetect", "checkruns"} =>
        \A s \in BlockStarts :
            LET e == Min(s + block_size, N)
            IN  /\ \A k \in s..(e - 2) :
                      Val(At(arr, k)) <= Val(At(arr, k + 1))
                /\ {Tag(At(arr, k)) : k \in s..(e - 1)} = s..(e - 1)
                /\ \A k \in s..(e - 1) :
                      At(arr, k) = At(input, Tag(At(arr, k)))
                /\ \A k, l \in s..(e - 1) :
                      (k < l /\ Val(At(arr, k)) = Val(At(arr, l)))
                          => Tag(At(arr, k)) < Tag(At(arr, l))

\* Two blocks were sorted, and a block that was out of order holds equal
\* values.
C8_Witness ==
    /\ pc = "rundetect"
    /\ N > block_size
    /\ arr # input
    /\ \E k \in 0..(Min(block_size, N) - 2) :
          /\ Val(At(input, k)) > Val(At(input, k + 1))
          /\ \E l \in 0..(Min(block_size, N) - 1) :
                l # k + 1 /\ Val(At(input, l)) = Val(At(input, k + 1))

\* ---------------------------------------------------------------- C9
\* C9: in the merge of adaptive_block_sort, among pending entries of equal
\* value the one of the lowest run is popped first, and in the merged
\* result the elements of each value appear in the order of their positions
\* in the block-sorted array.
C9_AbsMergeStable ==
    (variant = "abs" /\ pc \in {"merge", "copyback"}) =>
        /\ \A k \in 2..Len(heap) :
              heap[k][1] = HeapTop(heap)[1] => HeapTop(heap)[2] < heap[k][2]
        /\ pc = "copyback" =>
              \A v \in 1..MaxVal : WithValue(result, v) = WithValue(arr, v)

\* Equal values of two different runs were merged into result.
C9_Witness ==
    /\ variant = "abs"
    /\ pc = "copyback"
    /\ \E p, q \in 1..Len(result) :
          /\ p < q
          /\ Val(result[p]) = Val(result[q])
          /\ RunOf(PosOf(arr, Tag(result[p]))) #
                RunOf(PosOf(arr, Tag(result[q])))

\* --------------------------------------------------------------- C10
\* The state part of C10: at the end of the merge loop write_index = n and
\* the adjustment loop would change nothing.
C10_AdjustIsNoOp ==
    (variant = "oabs" /\ pc = "adjust") =>
        /\ write_index = N
        /\ AdjustLoop(arr, write_index) = arr

\* The step part of C10: the adjustment step leaves arr as it was.
C10_AdjustKeepsArr == pc = "adjust" => arr' = arr

\* C10: when the in-place merge loop of optimized_adaptive_block_sort ends,
\* write_index = n, so the final adjustment loop over range(write_index, n)
\* runs no iteration and the array returned is the array as the merge loop
\* left it.
C10_Theorem == [](C10_AdjustIsNoOp) /\ [][C10_AdjustKeepsArr]_vars

\* The merge loop has ended with the array out of order, before the
\* adjustment.
C10_Witness ==
    /\ variant = "oabs"
    /\ pc = "adjust"
    /\ write_index = N
    /\ ~IsSorted(arr)

=============================================================================
